---- MODULE Spec2Model ----
(***************************************************************************)
(* JSON viewer: the linter of the text editor (JsonCodeEditor.tsx), the    *)
(* match collector and the collapsible tree (JsonTree.tsx) and the host    *)
(* page that owns the text, the parsed value and the selection (page.tsx). *)
(*                                                                         *)
(* A character is a one-character string, a text is a sequence of          *)
(* characters, offsets into a text are 0-based as in the source.           *)
(***************************************************************************)
EXTENDS Integers, Sequences, FiniteSets, TLC

VARIABLES
  lintDoc,    \* jsonLinter: view.state.doc
  lintMsg,    \* jsonLinter: what the SyntaxError message of JSON.parse carries
  lintOut,    \* jsonLinter: its outcome (diagnostics returned, or an exception)
  lintPc,     \* "idle" before the linter ran, "done" after
  mValue,     \* collectMatches / JsonTree: value
  mFilter,    \* collectMatches / JsonTree: filter
  mRootLabel, \* collectMatches / JsonTree: rootLabel
  mMatches,   \* what collectMatches returned
  mRows,      \* the rows JsonTree rendered, top to bottom
  mPc,        \* "idle" before the two ran, "done" after
  treeValue,        \* Home: parsed, the value shown by the mounted JsonTree
  collapsed,        \* JsonNode: the mounted nodes whose open state is false
  selectedPath,     \* Home: selectedPath
  selectedValue,    \* Home: selectedValue
  search,           \* Home: search
  viewerMatches,    \* Home: viewerMatches
  viewerMatchIndex, \* Home: viewerMatchIndex
  event,            \* the last interaction, with the onSelect call it made
  inputData,         \* Home: inputData
  deferredInputData, \* Home: useDeferredValue(inputData)
  activeTab,         \* Home: activeTab
  searchMatches,     \* Home: searchMatches (offsets of the text search)
  currentMatchIndex, \* Home: currentMatchIndex
  compDoc,      \* jsonCompletionSource: context.state.doc
  compPos,      \* jsonCompletionSource: context.pos
  compExplicit, \* jsonCompletionSource: context.explicit
  compResult,   \* what jsonCompletionSource returned
  compPc        \* "idle" before the completion source ran, "done" after

lintVars == <<lintDoc, lintMsg, lintOut, lintPc>>
matchVars == <<mValue, mFilter, mRootLabel, mMatches, mRows, mPc>>
treeVars == <<treeValue, collapsed, selectedPath, selectedValue, search,
              viewerMatches, viewerMatchIndex, event>>
viewVars == <<inputData, deferredInputData, activeTab>>
compVars == <<compDoc, compPos, compExplicit, compResult, compPc>>
findVars == <<searchMatches, currentMatchIndex>>
vars == <<lintVars, matchVars, treeVars, viewVars, compVars, findVars>>

(***************************************************************************)
(* Bounds                                                                  *)
(***************************************************************************)
MaxDocLen == 3    \* longest document handed to the linter
MaxPos == 4       \* largest N of an 'at position N' message
MaxLine == 3      \* largest L of a 'line L column C' message
MaxCol == 4       \* largest C of a 'line L column C' message
MaxNodes == 4     \* most nodes of a value handed to collectMatches and JsonTree
MaxTreeNodes == 3 \* most nodes of a document shown in the viewer tab
MaxTextLen == 2   \* longest text typed into the editor, the samples aside
MaxCompLen == 3   \* longest document of the completion source, the samples aside

(***************************************************************************)
(* Strings                                                                 *)
(***************************************************************************)
Min(a, b) == IF a < b THEN a ELSE b
Max(a, b) == IF a > b THEN a ELSE b

\* the white space of the character universe (String.prototype.trim, JSON)
WhiteSpace == {" ", "\n", "\t", "\r"}

DigitChars == <<"0", "1", "2", "3", "4", "5", "6", "7", "8", "9">>
IsDigit(c) == \E d \in 1..10 : DigitChars[d] = c
DigitVal(c) == (CHOOSE d \in 1..10 : DigitChars[d] = c) - 1

\* all texts over an alphabet, up to a length
TextsUpTo(alphabet, n) == UNION {[1..k -> alphabet] : k \in 0..n}

\* !t.trim()
IsBlank(t) == \A i \in 1..Len(t) : t[i] \in WhiteSpace

\* t.trim()
Trim(t) ==
  IF IsBlank(t) THEN <<>>
  ELSE LET first == CHOOSE i \in 1..Len(t) :
                      t[i] \notin WhiteSpace /\ \A j \in 1..(i-1) : t[j] \in WhiteSpace
           last == CHOOSE i \in 1..Len(t) :
                      t[i] \notin WhiteSpace /\ \A j \in (i+1)..Len(t) : t[j] \in WhiteSpace
       IN SubSeq(t, first, last)

\* String.prototype.toLowerCase on the letters of the universe
LowerChar(c) ==
  CASE c = "A" -> "a" [] c = "B" -> "b" [] c = "J" -> "j" [] c = "S" -> "s"
    [] c = "O" -> "o" [] c = "N" -> "n" [] OTHER -> c
toLowerCase(t) == [i \in 1..Len(t) |-> LowerChar(t[i])]

\* t.includes(q)
includes(t, q) ==
  \E i \in 0..(Len(t) - Len(q)) : \A j \in 1..Len(q) : t[i + j] = q[j]

RECURSIVE NatOf(_)
NatOf(ds) ==
  IF ds = <<>> THEN 0
  ELSE 10 * NatOf(SubSeq(ds, 1, Len(ds) - 1)) + DigitVal(ds[Len(ds)])

\* String(n) for a natural number n
RECURSIVE ToStr(_)
ToStr(n) ==
  IF n < 10 THEN <<DigitChars[n + 1]>>
  ELSE Append(ToStr(n \div 10), DigitChars[(n % 10) + 1])

(***************************************************************************)
(* JSON values.  Every value is a record [t, s, kids]: t is the type, s is *)
(* String(value) of a scalar, kids are the entries of an object or array   *)
(* in Object.entries / index order (k is the key, empty for an array).     *)
(***************************************************************************)
JNull == [t |-> "null", s |-> <<"n", "u", "l", "l">>, kids |-> <<>>]
JTrue == [t |-> "bool", s |-> <<"t", "r", "u", "e">>, kids |-> <<>>]
JFalse == [t |-> "bool", s |-> <<"f", "a", "l", "s", "e">>, kids |-> <<>>]
JNum(digits) == [t |-> "num", s |-> digits, kids |-> <<>>]
JStr(chars) == [t |-> "str", s |-> chars, kids |-> <<>>]
JObj(entries) == [t |-> "obj", s |-> <<>>, kids |-> entries]
JArr(items) == [t |-> "arr", s |-> <<>>, kids |-> [i \in 1..Len(items) |-> [k |-> <<>>, v |-> items[i]]]]

isObject(value) == value.t = "obj"
isArray(value) == value.t = "arr"

\* JavaScript truthiness of a value (null, 0, "" and false are falsy)
Truthy(value) ==
  ~ \/ value.t = "null"
    \/ value = JFalse
    \/ (value.t = "num" /\ value.s = <<"0">>)
    \/ (value.t = "str" /\ value.s = <<>>)

(***************************************************************************)
(* JSON.parse, on the texts of the character universe: white space,        *)
(* objects, arrays, strings with the escapes \" \\ \/ \n \t \r, unsigned   *)
(* integers and the three literals.  No text of the model holds a sign, a  *)
(* fraction, an exponent or a \u escape.                                   *)
(***************************************************************************)
ParseFail == [ok |-> FALSE, v |-> JNull, i |-> 0]

RECURSIVE SkipWs(_, _)
SkipWs(t, i) ==
  IF i <= Len(t) /\ t[i] \in WhiteSpace THEN SkipWs(t, i + 1) ELSE i

\* an integer-index key: listed before the other keys, in ascending order
IsIndexKey(k) ==
  /\ Len(k) >= 1
  /\ \A i \in 1..Len(k) : IsDigit(k[i])
  /\ (Len(k) = 1 \/ k[1] # "0")

\* defines property key of an object under construction: a duplicate key
\* keeps its place and takes the later value
ObjPut(kids, key, v) ==
  IF \E p \in 1..Len(kids) : kids[p].k = key
  THEN [p \in 1..Len(kids) |-> IF kids[p].k = key THEN [k |-> key, v |-> v] ELSE kids[p]]
  ELSE IF IsIndexKey(key)
       THEN LET before == {p \in 1..Len(kids) :
                             IsIndexKey(kids[p].k) /\ NatOf(kids[p].k) < NatOf(key)}
                n == Cardinality(before)
            IN SubSeq(kids, 1, n) \o <<[k |-> key, v |-> v]>> \o SubSeq(kids, n + 1, Len(kids))
       ELSE Append(kids, [k |-> key, v |-> v])

Unescape(c) ==
  CASE c = "n" -> "\n" [] c = "t" -> "\t" [] c = "r" -> "\r" [] OTHER -> c

\* the characters of a string literal, from the one after the opening quote
RECURSIVE ParseStringBody(_, _, _)
ParseStringBody(t, j, acc) ==
  IF j > Len(t) THEN ParseFail
  ELSE IF t[j] = "\"" THEN [ok |-> TRUE, v |-> JStr(acc), i |-> j + 1]
  ELSE IF t[j] = "\\"
       THEN IF j + 1 <= Len(t) /\ t[j + 1] \in {"\"", "\\", "/", "n", "t", "r"}
            THEN ParseStringBody(t, j + 2, Append(acc, Unescape(t[j + 1])))
            ELSE ParseFail
  ELSE IF t[j] \in {"\n", "\t", "\r"} THEN ParseFail
  ELSE ParseStringBody(t, j + 1, Append(acc, t[j]))

RECURSIVE DigitsEnd(_, _)
DigitsEnd(t, i) ==
  IF i <= Len(t) /\ IsDigit(t[i]) THEN DigitsEnd(t, i + 1) ELSE i

ParseNumber(t, i) ==
  LET e == DigitsEnd(t, i)
  IN IF t[i] = "0" /\ e > i + 1 THEN [ok |-> TRUE, v |-> JNum(<<"0">>), i |-> i + 1]
     ELSE [ok |-> TRUE, v |-> JNum(SubSeq(t, i, e - 1)), i |-> e]

ParseLiteral(t, i, value) ==
  IF i + Len(value.s) - 1 <= Len(t) /\ SubSeq(t, i, i + Len(value.s) - 1) = value.s
  THEN [ok |-> TRUE, v |-> value, i |-> i + Len(value.s)]
  ELSE ParseFail

RECURSIVE ParseValue(_, _)
RECURSIVE ParseElements(_, _, _)
RECURSIVE ParseMembers(_, _, _)

\* the elements of an array, from the first character of an element
ParseElements(t, i, acc) ==
  LET r == ParseValue(t, SkipWs(t, i))
      j == SkipWs(t, r.i)
  IN IF ~r.ok \/ j > Len(t) THEN ParseFail
     ELSE IF t[j] = "," THEN ParseElements(t, j + 1, Append(acc, r.v))
     ELSE IF t[j] = "]" THEN [ok |-> TRUE, v |-> JArr(Append(acc, r.v)), i |-> j + 1]
     ELSE ParseFail

\* the members of an object, from the first character of a member
ParseMembers(t, i, acc) ==
  LET ks == SkipWs(t, i)
      key == IF ks <= Len(t) /\ t[ks] = "\"" THEN ParseStringBody(t, ks + 1, <<>>) ELSE ParseFail
      c == SkipWs(t, key.i)
      r == IF key.ok /\ c <= Len(t) /\ t[c] = ":" THEN ParseValue(t, SkipWs(t, c + 1)) ELSE ParseFail
      j == SkipWs(t, r.i)
  IN IF ~r.ok \/ j > Len(t) THEN ParseFail
     ELSE IF t[j] = "," THEN ParseMembers(t, j + 1, ObjPut(acc, key.v.s, r.v))
     ELSE IF t[j] = "}" THEN [ok |-> TRUE, v |-> JObj(ObjPut(acc, key.v.s, r.v)), i |-> j + 1]
     ELSE ParseFail

\* a value that starts at index i (1-based), white space already skipped
ParseValue(t, i) ==
  IF i > Len(t) THEN ParseFail
  ELSE IF t[i] = "{"
       THEN LET j == SkipWs(t, i + 1)
            IN IF j <= Len(t) /\ t[j] = "}" THEN [ok |-> TRUE, v |-> JObj(<<>>), i |-> j + 1]
               ELSE ParseMembers(t, j, <<>>)
  ELSE IF t[i] = "["
       THEN LET j == SkipWs(t, i + 1)
            IN IF j <= Len(t) /\ t[j] = "]" THEN [ok |-> TRUE, v |-> JArr(<<>>), i |-> j + 1]
               ELSE ParseElements(t, j, <<>>)
  ELSE IF t[i] = "\"" THEN ParseStringBody(t, i + 1, <<>>)
  ELSE IF IsDigit(t[i]) THEN ParseNumber(t, i)
  ELSE IF t[i] = "t" THEN ParseLiteral(t, i, JTrue)
  ELSE IF t[i] = "f" THEN ParseLiteral(t, i, JFalse)
  ELSE IF t[i] = "n" THEN ParseLiteral(t, i, JNull)
  ELSE ParseFail

\* JSON.parse(t): ok is FALSE when it throws its SyntaxError
JSONparse(t) ==
  LET r == ParseValue(t, SkipWs(t, 1))
  IN IF r.ok /\ SkipWs(t, r.i) > Len(t) THEN [ok |-> TRUE, v |-> r.v]
     ELSE [ok |-> FALSE, v |-> JNull]

(***************************************************************************)
(* The linter of the editor                                                *)
(***************************************************************************)
\* what jsonLinter reads from e.message: the N of 'at position N' and the
\* L, C of 'line L column C', -1 where the message has no such part
NoMsg == [pos |-> -1, line |-> -1, col |-> -1]
PosMsg(n) == [pos |-> n, line |-> -1, col |-> -1]
LineColMsg(l, c) == [pos |-> -1, line |-> l, col |-> c]
BothMsg(n, l, c) == [pos |-> n, line |-> l, col |-> c]

\* view.state.doc.lines
DocLines(doc) == Cardinality({i \in 1..Len(doc) : doc[i] = "\n"}) + 1

\* view.state.doc.line(n): a RangeError unless 1 <= n <= lines, else the
\* offset at which line n starts
DocLine(doc, n) ==
  IF n < 1 \/ n > DocLines(doc) THEN [ok |-> FALSE, from |-> 0]
  ELSE IF n = 1 THEN [ok |-> TRUE, from |-> 0]
  ELSE [ok |-> TRUE,
        from |-> CHOOSE i \in 1..Len(doc) :
                   doc[i] = "\n" /\ Cardinality({j \in 1..i : doc[j] = "\n"}) = n - 1]

\* the loop of findErrorPosition from offset i on
RECURSIVE ScanFrom(_, _, _, _, _)
ScanFrom(doc, i, depth, inString, escape) ==
  IF i >= Len(doc) THEN Max(0, Len(doc) - 1)
  ELSE LET ch == doc[i + 1]
       IN IF escape THEN ScanFrom(doc, i + 1, depth, inString, FALSE)
          ELSE IF ch = "\\" THEN ScanFrom(doc, i + 1, depth, inString, TRUE)
          ELSE IF ch = "\"" THEN ScanFrom(doc, i + 1, depth, ~inString, FALSE)
          ELSE IF inString THEN ScanFrom(doc, i + 1, depth, inString, FALSE)
          ELSE IF ch \in {"{", "["} THEN ScanFrom(doc, i + 1, depth + 1, inString, FALSE)
          ELSE IF ch \in {"}", "]"}
               THEN IF depth - 1 < 0 THEN i
                    ELSE ScanFrom(doc, i + 1, depth - 1, inString, FALSE)
          ELSE ScanFrom(doc, i + 1, depth, inString, FALSE)

findErrorPosition(doc) == ScanFrom(doc, 0, 0, FALSE, FALSE)

LintReturn(diags) == [raised |-> FALSE, diags |-> diags]
LintRaise == [raised |-> TRUE, diags |-> <<>>]

\* jsonLinter(view) with view.state.doc = doc, msg being what the message of
\* the SyntaxError carries when JSON.parse(doc) throws
jsonLinter(doc, msg) ==
  IF IsBlank(doc) THEN LintReturn(<<>>)
  ELSE IF JSONparse(doc).ok THEN LintReturn(<<>>)
  ELSE LET len == Len(doc)
           posMatch == msg.pos >= 0
           lineColMatch == msg.line >= 0
           lineInfo == DocLine(doc, Min(msg.line, DocLines(doc)))
       IN IF ~posMatch /\ lineColMatch /\ ~lineInfo.ok THEN LintRaise
          ELSE LET from0 == IF posMatch THEN Min(msg.pos, len)
                            ELSE IF lineColMatch THEN Min(lineInfo.from + msg.col - 1, len)
                            ELSE findErrorPosition(doc)
                   to0 == IF posMatch \/ lineColMatch THEN Min(from0 + 1, len)
                          ELSE Min(from0 + 10, len)
                   from1 == IF from0 >= len THEN Max(0, len - 1) ELSE from0
                   to1 == IF to0 <= from1 THEN Min(from1 + 1, len) ELSE to0
                   from2 == IF from1 < 0 THEN 0 ELSE from1
               IN LintReturn(<<[from |-> from2, to |-> to1]>>)

(***************************************************************************)
(* Specification of the linter: any document up to MaxDocLen over the      *)
(* characters the linter tells apart, any form of parser message.          *)
(***************************************************************************)
LintChars == {"{", "}", "[", "]", "\"", "\\", "\n", " ", "1"}
LintTexts == TextsUpTo(LintChars, MaxDocLen)

\* the messages a failing JSON.parse may carry
Messages ==
  {NoMsg}
    \cup {PosMsg(n) : n \in 0..MaxPos}
    \cup {LineColMsg(l, c) : l \in 0..MaxLine, c \in 0..MaxCol}
    \cup {BothMsg(n, 0, 0) : n \in 0..MaxPos}

Malformed(doc) == ~IsBlank(doc) /\ ~JSONparse(doc).ok

LintIdle ==
  /\ lintDoc = <<>>
  /\ lintMsg = NoMsg
  /\ lintOut = LintReturn(<<>>)
  /\ lintPc = "idle"

MatchIdle ==
  /\ mValue = JNull
  /\ mFilter = <<>>
  /\ mRootLabel = <<>>
  /\ mMatches = <<>>
  /\ mRows = <<>>
  /\ mPc = "idle"

\* an interaction that called onSelect no time
NoEvent(kind) ==
  [kind |-> kind, node |-> <<>>, calls |-> 0, path |-> <<>>, label |-> <<>>,
   value |-> JNull, wasCollapsed |-> FALSE, fromIndex |-> -1, streak |-> 0,
   startIndex |-> -1]

TreeIdle ==
  /\ treeValue = JNull
  /\ collapsed = {}
  /\ selectedPath = [set |-> FALSE, path |-> <<>>]
  /\ selectedValue = JNull
  /\ search = <<>>
  /\ viewerMatches = <<>>
  /\ viewerMatchIndex = -1
  /\ event = NoEvent("none")

ViewIdle ==
  /\ inputData = <<>>
  /\ deferredInputData = <<>>
  /\ activeTab = "text"

FindIdle ==
  /\ searchMatches = <<>>
  /\ currentMatchIndex = -1

\* a CompletionResult, or null
NullResult == [isNull |-> TRUE, from |-> 0, options |-> <<>>]

CompIdle ==
  /\ compDoc = <<>>
  /\ compPos = 0
  /\ compExplicit = FALSE
  /\ compResult = NullResult
  /\ compPc = "idle"

LintInit ==
  /\ lintDoc \in LintTexts
  /\ lintMsg = NoMsg
  /\ lintOut = LintReturn(<<>>)
  /\ lintPc = "idle"
  /\ MatchIdle
  /\ CompIdle
  /\ FindIdle
  /\ TreeIdle
  /\ ViewIdle

\* the editor runs the lint source on the document
RunLinter ==
  /\ lintPc = "idle"
  /\ \E msg \in (IF Malformed(lintDoc) THEN Messages ELSE {NoMsg}) :
       /\ lintMsg' = msg
       /\ lintOut' = jsonLinter(lintDoc, msg)
  /\ lintPc' = "done"
  /\ UNCHANGED <<lintDoc, matchVars, compVars, findVars, treeVars, viewVars>>

LintNext == RunLinter
SpecLint == LintInit /\ [][LintNext]_vars

\* C1: for every document that is not blank and fails to parse, jsonLinter
\* returns exactly one diagnostic with 0 <= from <= to <= length(text),
\* whichever form the parser's message takes.
C1_OneDiagnosticInRange ==
  (lintPc = "done" /\ Malformed(lintDoc)) =>
    /\ ~lintOut.raised
    /\ Len(lintOut.diags) = 1
    /\ 0 <= lintOut.diags[1].from
    /\ lintOut.diags[1].from <= lintOut.diags[1].to
    /\ lintOut.diags[1].to <= Len(lintDoc)

\* C2: the error locator inside jsonLinter never raises, for any text and
\* any parser message, a 'line 0 column C' message included.
C2_LocatorNeverRaises == lintPc = "done" => ~lintOut.raised

(***************************************************************************)
(* The match collector and the tree.  A node of a value is addressed by    *)
(* the sequence of child positions (1-based) that leads to it from the     *)
(* root; the address is carried next to every path the two produce.        *)
(***************************************************************************)
RECURSIVE NodeAt(_, _)
NodeAt(value, node) ==
  IF node = <<>> THEN value ELSE NodeAt(value.kids[Head(node)].v, Tail(node))

\* the addresses of all nodes of a value
RECURSIVE Nodes(_)
Nodes(value) ==
  {<<>>} \cup UNION {{<<i>> \o n : n \in Nodes(value.kids[i].v)} : i \in 1..Len(value.kids)}

\* String(val) of a scalar
String(val) == val.s

\* valueMatches(val, label) of collectMatches, searchLower = filter.toLowerCase()
valueMatches(val, label, searchLower) ==
  LET labelMatch == includes(toLowerCase(label), searchLower)
  IN IF ~Truthy(val) \/ val.t \notin {"obj", "arr", "null"}
     THEN labelMatch \/ includes(toLowerCase(String(val)), searchLower)
     ELSE labelMatch

RECURSIVE collectMatchesAt(_, _, _, _, _)
RECURSIVE CollectEntries(_, _, _, _, _, _)

\* CollectEntry with the two pushes swapped: the matches below the entry
\* first, the entry's own match after them
CollectEntryChildrenFirst(value, filter, rootLabel, currentPath, node, i) ==
  LET child == value.kids[i].v
      childPath == IF isObject(value)
                   THEN (IF currentPath # <<>> THEN currentPath ELSE rootLabel)
                          \o <<".">> \o value.kids[i].k
                   ELSE currentPath \o <<"[">> \o ToStr(i - 1) \o <<"]">>
      label == IF isObject(value) THEN value.kids[i].k ELSE ToStr(i - 1)
      own == IF valueMatches(child, label, toLowerCase(filter))
             THEN <<[path |-> childPath, node |-> Append(node, i)]>>
             ELSE <<>>
  IN collectMatchesAt(child, filter, rootLabel, childPath, Append(node, i)) \o own

\* the callback of forEach for entry i of an object or array: the entry's
\* own match, then the matches below it
CollectEntry(value, filter, rootLabel, currentPath, node, i) ==
  LET child == value.kids[i].v
      childPath == IF isObject(value)
                   THEN (IF currentPath # <<>> THEN currentPath ELSE rootLabel)
                          \o <<".">> \o value.kids[i].k
                   ELSE currentPath \o <<"[">> \o ToStr(i - 1) \o <<"]">>
      label == IF isObject(value) THEN value.kids[i].k ELSE ToStr(i - 1)
      own == IF valueMatches(child, label, toLowerCase(filter))
             THEN <<[path |-> childPath, node |-> Append(node, i)]>>
             ELSE <<>>
  IN own \o collectMatchesAt(child, filter, rootLabel, childPath, Append(node, i))

\* forEach over the entries from position i on
CollectEntries(value, filter, rootLabel, currentPath, node, i) ==
  IF i > Len(value.kids) THEN <<>>
  ELSE CollectEntry(value, filter, rootLabel, currentPath, node, i)
         \o CollectEntries(value, filter, rootLabel, currentPath, node, i + 1)

\* collectMatches(value, filter, rootLabel, currentPath); node is the address
\* of value, each returned path comes with the address of the node it was
\* pushed for
collectMatchesAt(value, filter, rootLabel, currentPath, node) ==
  IF IsBlank(filter) THEN <<>>
  ELSE IF isObject(value) \/ isArray(value)
       THEN CollectEntries(value, filter, rootLabel, currentPath, node, 1)
       ELSE <<>>

\* collectMatches(value, filter, rootLabel) as its callers see it
collectMatches(value, filter, rootLabel) ==
  LET found == collectMatchesAt(value, filter, rootLabel, <<>>, <<>>)
  IN [i \in 1..Len(found) |-> found[i].path]

\* selectedPath of the host: null, or a path
NoSel == [set |-> FALSE, path |-> <<>>]
Sel(p) == [set |-> TRUE, path |-> p]

\* isMatch of PrimitiveValue
PrimitiveValueIsMatch(value, filter) ==
  filter # <<>> /\ includes(toLowerCase(String(value)), toLowerCase(filter))

\* isSelected with a prefix test in place of the equality
IsSelectedPrefix(selPath, path) ==
  /\ selPath.set
  /\ Len(path) <= Len(selPath.path)
  /\ SubSeq(selPath.path, 1, Len(path)) = path

\* isSelected of JsonNode: selectedPath === path
IsSelected(selPath, path) == selPath.set /\ selPath.path = path

RECURSIVE JsonNode(_, _, _, _, _, _, _)
RECURSIVE JsonNodeChildren(_, _, _, _, _, _, _)

\* the rows that JsonNode renders, its own row first: closed holds the
\* addresses of the mounted nodes whose open state is false
JsonNode(label, value, path, node, selPath, filter, closed) ==
  LET isExpandable == isObject(value) \/ isArray(value)
      open == node \notin closed
      isSelected == IsSelected(selPath, path)
      isLabelMatch == filter # <<>> /\ includes(toLowerCase(label), toLowerCase(filter))
      row == [node |-> node, path |-> path, label |-> label,
              isSelected |-> isSelected, isLabelMatch |-> isLabelMatch,
              isValueMatch |-> ~isExpandable /\ PrimitiveValueIsMatch(value, filter)]
  IN <<row>> \o (IF open /\ isExpandable
                 THEN JsonNodeChildren(value, path, node, selPath, filter, closed, 1)
                 ELSE <<>>)

\* the child JsonNodes from position i on
JsonNodeChildren(value, path, node, selPath, filter, closed, i) ==
  IF i > Len(value.kids) THEN <<>>
  ELSE LET key == value.kids[i].k
           child == value.kids[i].v
           rows == IF isObject(value)
                   THEN JsonNode(key, child,
                                 IF path # <<>> THEN path \o <<".">> \o key ELSE key,
                                 Append(node, i), selPath, filter, closed)
                   ELSE JsonNode(ToStr(i - 1), child,
                                 path \o <<"[">> \o ToStr(i - 1) \o <<"]">>,
                                 Append(node, i), selPath, filter, closed)
       IN rows \o JsonNodeChildren(value, path, node, selPath, filter, closed, i + 1)

\* the rows of <JsonTree value rootLabel selPath filter />
JsonTree(value, rootLabel, selPath, filter, closed) ==
  JsonNode(rootLabel, value, rootLabel, <<>>, selPath, filter, closed)

(***************************************************************************)
(* Specification of the match collector next to the tree: any value of up  *)
(* to MaxNodes nodes, any filter and root label of small sets.             *)
(***************************************************************************)
Scalars == {JNull, JNum(<<"1">>), JStr(<<"A", " ", "b">>)}
Keys == {<<"A">>, <<"A", ".", "A">>}
Filters == {<<>>, <<" ">>, <<"a">>, <<"A">>, <<" ", "a">>, <<"1">>, <<"n">>}
RootLabels == {<<"J", "S", "O", "N">>, <<>>}

RECURSIVE ValuesOfSize(_)
RECURSIVE KidLists(_)

\* the lists of values that have n nodes together
KidLists(n) ==
  IF n = 0 THEN {<<>>}
  ELSE UNION {{<<v>> \o rest : v \in ValuesOfSize(j), rest \in KidLists(n - j)} : j \in 1..n}

\* the values of exactly n nodes
ValuesOfSize(n) ==
  IF n = 1 THEN Scalars \cup {JObj(<<>>), JArr(<<>>)}
  ELSE LET lists == KidLists(n - 1)
       IN {JArr(vs) : vs \in lists}
            \cup UNION {{JObj([i \in 1..Len(vs) |-> [k |-> ks[i], v |-> vs[i]]]) :
                           ks \in {f \in [1..Len(vs) -> Keys] :
                                     \A a, b \in 1..Len(vs) : a # b => f[a] # f[b]}} :
                        vs \in lists}

Values == UNION {ValuesOfSize(n) : n \in 1..MaxNodes}

MatchInit ==
  /\ mValue \in Values
  /\ mFilter \in Filters
  /\ mRootLabel \in RootLabels
  /\ mMatches = <<>>
  /\ mRows = <<>>
  /\ mPc = "idle"
  /\ LintIdle
  /\ TreeIdle
  /\ ViewIdle
  /\ CompIdle
  /\ FindIdle

\* collectMatches and a first render of JsonTree on the same arguments
CollectAndRender ==
  /\ mPc = "idle"
  /\ mMatches' = collectMatchesAt(mValue, mFilter, mRootLabel, <<>>, <<>>)
  /\ mRows' = JsonTree(mValue, mRootLabel, NoSel, mFilter, {})
  /\ mPc' = "done"
  /\ UNCHANGED <<mValue, mFilter, mRootLabel, lintVars, compVars, findVars, treeVars, viewVars>>

MatchNext == CollectAndRender
SpecMatch == MatchInit /\ [][MatchNext]_vars

\* the row of the rendered tree that shows a node
RowOf(rows, node) == rows[CHOOSE i \in 1..Len(rows) : rows[i].node = node]
RowIndex(rows, node) == CHOOSE i \in 1..Len(rows) : rows[i].node = node

\* C3: every path collectMatches returns is the path JsonTree assigns to the
\* same node, whatever the root value, the query and the root label.
C3_PathsAreTreePaths ==
  mPc = "done" =>
    \A i \in 1..Len(mMatches) : mMatches[i].path = RowOf(mRows, mMatches[i].node).path

\* a node matches a query: its label contains it or, for a scalar, its
\* String(value) does, without regard to case
NodeMatches(value, label, query) ==
  \/ includes(toLowerCase(label), toLowerCase(query))
  \/ /\ value.t \notin {"obj", "arr"}
     /\ includes(toLowerCase(value.s), toLowerCase(query))

\* C4: for a non-blank query collectMatches returns the path of every node,
\* the root included, whose label or scalar value contains the query, and of
\* no other node.
C4_ExactlyTheMatchingNodes ==
  (mPc = "done" /\ ~IsBlank(mFilter)) =>
    {mMatches[i].node : i \in 1..Len(mMatches)}
      = {n \in Nodes(mValue) : NodeMatches(NodeAt(mValue, n), RowOf(mRows, n).label, mFilter)}

\* a is before b in depth-first pre-order: a is an ancestor of b, or a
\* lies below an earlier entry of their last common ancestor
PreOrderBefore(a, b) ==
  \/ Len(a) < Len(b) /\ SubSeq(b, 1, Len(a)) = a
  \/ \E k \in 1..Min(Len(a), Len(b)) :
       /\ SubSeq(a, 1, k - 1) = SubSeq(b, 1, k - 1)
       /\ a[k] < b[k]

C5Example ==
  JObj(<<[k |-> <<"a">>, v |-> JNum(<<"1">>)],
         [k |-> <<"b">>, v |-> JObj(<<[k |-> <<"a">>, v |-> JNum(<<"2">>)]>>)]>>)

JSON == <<"J", "S", "O", "N">>
Searches == {<<>>, <<" ">>, <<" ", "a">>, <<"n">>}

\* the scalars of a value
RECURSIVE ScalarsOf(_)
ScalarsOf(value) ==
  IF isObject(value) \/ isArray(value)
  THEN UNION {ScalarsOf(value.kids[i].v) : i \in 1..Len(value.kids)}
  ELSE {value}

\* the documents the viewer shows: parsed is truthy; nulls and strings are
\* the scalars
TreeScalars == {JNull, JStr(<<"A", " ", "b">>)}
TreeValues ==
  {v \in UNION {ValuesOfSize(n) : n \in 1..MaxTreeNodes} :
     Truthy(v) /\ ScalarsOf(v) \subseteq TreeScalars}

\* key={search || "default"} of JsonTree
TreeKey(s) == IF s # <<>> THEN s ELSE <<"d", "e", "f", "a", "u", "l", "t">>

\* the rows on screen: JsonTree is rendered in the viewer tab for a truthy
\* parsed
TreeRows ==
  IF activeTab = "viewer" /\ Truthy(treeValue)
  THEN JsonTree(treeValue, JSON, selectedPath, search, collapsed)
  ELSE <<>>

IsStrictPrefix(a, b) == Len(a) < Len(b) /\ SubSeq(b, 1, Len(a)) = a

\* toggle without the isExpandable test
ToggleAnyNode(closed, node, value) ==
  IF node \in closed THEN closed \ {node}
  ELSE {c \in closed : ~IsStrictPrefix(node, c)} \cup {node}

\* toggle of JsonNode: flips open of an expandable node; closing a node
\* unmounts the JsonNodes below it, whose open state is lost with them
toggle(closed, node, value) ==
  IF isObject(value) \/ isArray(value)
  THEN IF node \in closed THEN closed \ {node}
       ELSE {c \in closed : ~IsStrictPrefix(node, c)} \cup {node}
  ELSE closed

TreeInit ==
  /\ treeValue \in TreeValues
  /\ collapsed = {}
  /\ selectedPath = Sel(JSON)
  /\ selectedValue = treeValue
  /\ search = <<>>
  /\ viewerMatches = <<>>
  /\ viewerMatchIndex = -1
  /\ event = NoEvent("mount")
  /\ inputData = <<>>
  /\ deferredInputData = <<>>
  /\ activeTab = "viewer"
  /\ LintIdle
  /\ MatchIdle
  /\ CompIdle
  /\ FindIdle

\* onClick of a row on screen: toggle(), then onSelect(path, label, value),
\* which the host wires to setSelectedPath / setSelectedValue
ClickRow(row) ==
  /\ LET value == NodeAt(treeValue, row.node)
     IN /\ collapsed' = toggle(collapsed, row.node, value)
        /\ selectedPath' = Sel(row.path)
        /\ selectedValue' = value
        /\ event' = [NoEvent("click") EXCEPT
                       !.node = row.node, !.calls = 1, !.path = row.path,
                       !.label = row.label, !.value = value,
                       !.wasCollapsed = row.node \in collapsed]
  /\ UNCHANGED <<treeValue, search, viewerMatches, viewerMatchIndex, lintVars, matchVars, compVars, findVars, viewVars>>

\* onChange of the search box: setSearch; a new key remounts JsonTree
SetSearch(s) ==
  /\ s # search
  /\ search' = s
  /\ collapsed' = IF TreeKey(s) # TreeKey(search) THEN {} ELSE collapsed
  /\ event' = NoEvent(IF TreeKey(s) # TreeKey(search) THEN "mount" ELSE "other")
  /\ UNCHANGED <<treeValue, selectedPath, selectedValue, viewerMatches, viewerMatchIndex,
                 lintVars, matchVars, compVars, findVars, viewVars>>

\* a press of Next or Previous: the index it found, and for a run of
\* successive Next presses its length and the index the run started from
NavEvent(kind) ==
  LET runs == kind = "next" /\ event.kind = "next" /\ event.streak < Len(viewerMatches)
  IN [NoEvent(kind) EXCEPT
        !.fromIndex = viewerMatchIndex,
        !.streak = IF kind # "next" THEN 0 ELSE IF runs THEN event.streak + 1 ELSE 1,
        !.startIndex = IF kind # "next" THEN -1
                       ELSE IF runs THEN event.startIndex ELSE viewerMatchIndex]

\* text.indexOf(query, from), -1 if there is none
indexOf(text, query, from) ==
  LET hits == {i \in from..(Len(text) - Len(query)) :
                 SubSeq(text, i + 1, i + Len(query)) = query}
  IN IF hits = {} THEN -1 ELSE CHOOSE i \in hits : \A j \in hits : i <= j

\* the while loop of handleSearch: pos and every later occurrence
RECURSIVE OccurrencesFrom(_, _, _)
OccurrencesFrom(text, query, pos) ==
  IF pos = -1 THEN <<>>
  ELSE <<pos>> \o OccurrencesFrom(text, query, indexOf(text, query, pos + 1))

\* handleSearch (GO, or Enter in the search box)
handleSearch ==
  /\ LET searchTerm == Trim(search)
     IN IF activeTab = "text" /\ searchTerm # <<>>
        THEN LET text == toLowerCase(inputData)
                 query == toLowerCase(searchTerm)
                 matches == OccurrencesFrom(text, query, indexOf(text, query, 0))
             IN /\ searchMatches' = matches
                /\ currentMatchIndex' = IF Len(matches) > 0 THEN 0 ELSE -1
                /\ UNCHANGED <<viewerMatches, viewerMatchIndex, selectedPath>>
        ELSE IF activeTab = "viewer" /\ Truthy(treeValue) /\ searchTerm # <<>>
        THEN LET matches == collectMatches(treeValue, searchTerm, JSON)
             IN /\ viewerMatches' = matches
                /\ IF Len(matches) > 0
                   THEN viewerMatchIndex' = 0 /\ selectedPath' = Sel(matches[1])
                   ELSE viewerMatchIndex' = -1 /\ UNCHANGED selectedPath
                /\ UNCHANGED findVars
        ELSE UNCHANGED <<viewerMatches, viewerMatchIndex, selectedPath, findVars>>
  /\ event' = NoEvent("go")
  /\ UNCHANGED <<treeValue, collapsed, selectedValue, search, lintVars, matchVars, compVars, viewVars>>

\* handleNext that stops at the last match
handleNextNoWrap ==
  /\ IF activeTab = "text"
     THEN /\ Len(searchMatches) # 0
          /\ currentMatchIndex' = Min(currentMatchIndex + 1, Len(searchMatches) - 1)
          /\ UNCHANGED <<viewerMatchIndex, selectedPath>>
     ELSE /\ Len(viewerMatches) # 0
          /\ LET nextIndex == Min(viewerMatchIndex + 1, Len(viewerMatches) - 1)
             IN /\ viewerMatchIndex' = nextIndex
                /\ selectedPath' = Sel(viewerMatches[nextIndex + 1])
          /\ UNCHANGED currentMatchIndex
  /\ event' = NavEvent("next")
  /\ UNCHANGED <<treeValue, collapsed, selectedValue, search, viewerMatches, searchMatches,
                 lintVars, matchVars, compVars, viewVars>>

\* handleNext (button Next)
handleNext ==
  /\ IF activeTab = "text"
     THEN /\ Len(searchMatches) # 0
          /\ currentMatchIndex' = (currentMatchIndex + 1) % Len(searchMatches)
          /\ UNCHANGED <<viewerMatchIndex, selectedPath>>
     ELSE /\ Len(viewerMatches) # 0
          /\ LET nextIndex == (viewerMatchIndex + 1) % Len(viewerMatches)
             IN /\ viewerMatchIndex' = nextIndex
                /\ selectedPath' = Sel(viewerMatches[nextIndex + 1])
          /\ UNCHANGED currentMatchIndex
  /\ event' = NavEvent("next")
  /\ UNCHANGED <<treeValue, collapsed, selectedValue, search, viewerMatches, searchMatches,
                 lintVars, matchVars, compVars, viewVars>>

\* handlePrevious (button Previous)
handlePrevious ==
  /\ IF activeTab = "text"
     THEN /\ Len(searchMatches) # 0
          /\ currentMatchIndex' = IF currentMatchIndex <= 0 THEN Len(searchMatches) - 1
                                  ELSE currentMatchIndex - 1
          /\ UNCHANGED <<viewerMatchIndex, selectedPath>>
     ELSE /\ Len(viewerMatches) # 0
          /\ LET prevIndex == IF viewerMatchIndex <= 0 THEN Len(viewerMatches) - 1
                              ELSE viewerMatchIndex - 1
             IN /\ viewerMatchIndex' = prevIndex
                /\ selectedPath' = Sel(viewerMatches[prevIndex + 1])
          /\ UNCHANGED currentMatchIndex
  /\ event' = NavEvent("previous")
  /\ UNCHANGED <<treeValue, collapsed, selectedValue, search, viewerMatches, searchMatches,
                 lintVars, matchVars, compVars, viewVars>>

TreeNext ==
  \/ LET rows == TreeRows IN \E i \in 1..Len(rows) : ClickRow(rows[i])
  \/ \E s \in Searches : SetSearch(s)
  \/ handleSearch
  \/ handleNext
  \/ handlePrevious

SpecTree == TreeInit /\ [][TreeNext]_vars

\* the rows of the same tree with every node expanded
FullRows == JsonTree(treeValue, JSON, selectedPath, search, {})
PathOfNode(node) == RowOf(FullRows, node).path

\* the label and the path JsonNode hands down to the node at an address
\* below a node of the given label and path
RECURSIVE NodeLabel(_, _, _)
NodeLabel(value, label, node) ==
  IF node = <<>> THEN label
  ELSE LET i == Head(node)
       IN NodeLabel(value.kids[i].v,
                    IF isObject(value) THEN value.kids[i].k ELSE ToStr(i - 1),
                    Tail(node))

RECURSIVE NodePath(_, _, _)
NodePath(value, path, node) ==
  IF node = <<>> THEN path
  ELSE LET i == Head(node)
           key == value.kids[i].k
       IN NodePath(value.kids[i].v,
                   IF isObject(value)
                   THEN (IF path # <<>> THEN path \o <<".">> \o key ELSE key)
                   ELSE path \o <<"[">> \o ToStr(i - 1) \o <<"]">>,
                   Tail(node))

\* the keys of all objects of a value
RECURSIVE KeysOf(_)
KeysOf(value) ==
  (IF isObject(value) THEN {value.kids[i].k : i \in 1..Len(value.kids)} ELSE {})
    \cup UNION {KeysOf(value.kids[i].v) : i \in 1..Len(value.kids)}

KeysPlain(value) ==
  \A k \in KeysOf(value) : \A i \in 1..Len(k) : k[i] \notin {".", "["}

\* the nodes whose row is among rows and marked selected
MarkedNodes(rows) == {rows[i].node : i \in {j \in 1..Len(rows) : rows[j].isSelected}}
MarkedCount(rows) == Cardinality({j \in 1..Len(rows) : rows[j].isSelected})

\* an ancestor of the node is collapsed
Hidden(node) == \E c \in collapsed : IsStrictPrefix(c, node)

\* the nodes that selectedPath addresses
SelectedNodes ==
  LET full == FullRows
  IN {full[i].node : i \in {j \in 1..Len(full) :
                                selectedPath.set /\ full[j].path = selectedPath.path}}

\* C8 as stated: with keys free of '.' and '[' and selectedPath the path of
\* a node n, in every tree state exactly one rendered row is marked selected
\* and it is the row of n.
C8_ExactlyOneRowSelected ==
  KeysPlain(treeValue) =>
    LET rows == TreeRows
    IN \A n \in SelectedNodes : MarkedCount(rows) = 1 /\ MarkedNodes(rows) = {n}

\* C8 amended: with keys free of '.' and '[' and selectedPath the path of a
\* node n, the row of n is the only row that can be marked selected: exactly
\* one rendered row is marked, and it is the row of n, when every ancestor of
\* n is expanded, and none is marked when an ancestor of n is collapsed; a
\* row is marked selected iff its path is string-equal to selectedPath.
C8_SelectedRowIsTheNode ==
  LET rows == TreeRows
  IN /\ KeysPlain(treeValue) =>
          \A n \in SelectedNodes :
            IF Hidden(n) THEN MarkedCount(rows) = 0
            ELSE MarkedCount(rows) = 1 /\ MarkedNodes(rows) = {n}
     /\ \A i \in 1..Len(rows) :
          rows[i].isSelected <=> (selectedPath.set /\ rows[i].path = selectedPath.path)

\* after row clicks collapsed a node, a node below the root is selected and
\* its row is the one marked
C8_Witness ==
  /\ KeysPlain(treeValue)
  /\ collapsed # {}
  /\ \E n \in SelectedNodes : n # <<>> /\ MarkedNodes(TreeRows) = {n}

\* the paths of the rows that the tree highlights, by label or by value
HighlightedPaths ==
  LET full == FullRows
  IN {full[i].path : i \in {j \in 1..Len(full) : full[j].isLabelMatch \/ full[j].isValueMatch}}

\* C9: every node starts expanded; a click on a row calls onSelect exactly
\* once with the node's (path, label, value) and flips the node's expand
\* state iff the node is an object or array, a click on a scalar row changes
\* no expand state; two successive clicks on one expandable row restore its
\* expand state.
C9_ClickTogglesAndSelects ==
  /\ [](event.kind = "mount" => collapsed = {})
  /\ [][event'.kind = "click" =>
          LET n == event'.node
              value == NodeAt(treeValue, n)
              isExpandable == isObject(value) \/ isArray(value)
              row == [path |-> NodePath(treeValue, JSON, n),
                      label |-> NodeLabel(treeValue, JSON, n)]
          IN /\ event'.calls = 1
             /\ event'.path = row.path /\ event'.label = row.label /\ event'.value = value
             /\ selectedPath' = Sel(row.path) /\ selectedValue' = value
             /\ isExpandable => ((n \in collapsed') # (n \in collapsed))
             /\ ~isExpandable => collapsed' = collapsed
             /\ (isExpandable /\ n \in collapsed) =>
                  \A c \in collapsed' : ~IsStrictPrefix(n, c)
             /\ (isExpandable /\ event.kind = "click" /\ event.node = n) =>
                  ((n \in collapsed') <=> event.wasCollapsed)
     ]_vars

\* a second click in a row on an object or array below the root has
\* expanded it again
C9_Witness ==
  /\ event.kind = "click"
  /\ event.node # <<>>
  /\ event.wasCollapsed
  /\ event.node \notin collapsed
  /\ isObject(NodeAt(treeValue, event.node)) \/ isArray(NodeAt(treeValue, event.node))

\* C10: after GO the set of nodes the tree highlights for the search string
\* is exactly the set of nodes whose paths the match collector returned,
\* the root row, white-space-only strings and strings with leading or
\* trailing spaces included.
C10_HighlightsAreTheMatches ==
  /\ LET matches == collectMatches(treeValue, search, JSON)
     IN HighlightedPaths = {matches[i] : i \in 1..Len(matches)}
  /\ (event.kind = "go" /\ Trim(search) # <<>>) =>
       HighlightedPaths = {viewerMatches[i] : i \in 1..Len(viewerMatches)}

\* C11: after GO with a query that has a match viewerMatchIndex = 0 and
\* selectedPath = viewerMatches[0]; Next and Previous move the index by one
\* cyclically and select viewerMatches[viewerMatchIndex]; Previous right
\* after Next restores the index and the selected match; Next pressed
\* length(viewerMatches) times in a row is back at the match it started from.
C11_GoNextPreviousCycle ==
  /\ [](LET found == collectMatches(treeValue, Trim(search), JSON)
        IN (event.kind = "go" /\ Trim(search) # <<>> /\ Len(found) > 0) =>
             /\ viewerMatches = found
             /\ viewerMatchIndex = 0
             /\ selectedPath = Sel(viewerMatches[1]))
  /\ [](event.kind = "next" /\ event.streak = Len(viewerMatches) =>
          /\ viewerMatchIndex = event.startIndex
          /\ selectedPath = Sel(viewerMatches[event.startIndex + 1]))
  /\ [][LET len == Len(viewerMatches)
        IN /\ event'.kind \in {"next", "previous"} =>
                /\ len > 0
                /\ viewerMatches' = viewerMatches
                /\ viewerMatchIndex \in 0..(len - 1)
                /\ selectedPath' = Sel(viewerMatches[viewerMatchIndex' + 1])
           /\ event'.kind = "next" =>
                viewerMatchIndex' = (viewerMatchIndex + 1) % len
           /\ event'.kind = "previous" =>
                viewerMatchIndex' = (viewerMatchIndex + len - 1) % len
           /\ (event.kind = "next" /\ event'.kind = "previous") =>
                /\ viewerMatchIndex' = event.fromIndex
                /\ selectedPath' = Sel(viewerMatches[event.fromIndex + 1])
     ]_vars

\* a run of Next over two matches or more has come back to its start, and
\* the index has wrapped from the last match to the first
C11_Witness ==
  /\ event.kind = "next"
  /\ Len(viewerMatches) >= 2
  /\ event.streak = Len(viewerMatches)
  /\ viewerMatchIndex = 0
  /\ event.fromIndex = Len(viewerMatches) - 1

(***************************************************************************)
(* Specification of the text pipeline of the host: the editor changes      *)
(* inputData, the deferred copy follows in a later render, parsed and      *)
(* error are derived, the viewer tab shows the tree or a placeholder.      *)
(***************************************************************************)
\* parsed that keeps a truthy value only
ParsedIfTruthy(text) ==
  IF IsBlank(text) THEN JNull
  ELSE LET r == JSONparse(text) IN IF r.ok /\ Truthy(r.v) THEN r.v ELSE JNull

\* parsed (useMemo over the deferred text)
ParsedOf(text) ==
  IF IsBlank(text) THEN JNull
  ELSE LET r == JSONparse(text) IN IF r.ok THEN r.v ELSE JNull
parsed == ParsedOf(deferredInputData)

\* error (useMemo over inputData): "null", or "message" for err.message
ErrorOf(text) ==
  IF IsBlank(text) THEN "null"
  ELSE IF JSONparse(text).ok THEN "null" ELSE "message"
error == ErrorOf(inputData)

\* what the viewer tab shows in the tree pane
ViewerPane ==
  IF Truthy(parsed) THEN "tree"
  ELSE IF error # "null" THEN "error" ELSE "No data loaded"

\* JSON.stringify of a string: the quoted text with its escapes
EscapeChar(c) ==
  CASE c = "\"" -> <<"\\", "\"">> [] c = "\\" -> <<"\\", "\\">>
    [] c = "\n" -> <<"\\", "n">> [] c = "\t" -> <<"\\", "t">>
    [] c = "\r" -> <<"\\", "r">> [] OTHER -> <<c>>

RECURSIVE EscapeAll(_)
EscapeAll(str) ==
  IF str = <<>> THEN <<>> ELSE EscapeChar(Head(str)) \o EscapeAll(Tail(str))

Quote(str) == <<"\"">> \o EscapeAll(str) \o <<"\"">>

Spaces(n) == [i \in 1..n |-> " "]

\* JSON.stringify(value, null, 2) below an indentation
RECURSIVE Stringify(_, _)
RECURSIVE StringifyKids(_, _, _)
Stringify(value, indent) ==
  IF isObject(value) \/ isArray(value)
  THEN IF Len(value.kids) = 0
       THEN (IF isObject(value) THEN <<"{", "}">> ELSE <<"[", "]">>)
       ELSE <<IF isObject(value) THEN "{" ELSE "[", "\n">>
              \o StringifyKids(value, indent + 2, 1)
              \o <<"\n">> \o Spaces(indent) \o <<IF isObject(value) THEN "}" ELSE "]">>
  ELSE IF value.t = "str" THEN Quote(value.s) ELSE value.s

StringifyKids(value, indent, i) ==
  LET kid == value.kids[i]
      item == Spaces(indent)
                \o (IF isObject(value) THEN Quote(kid.k) \o <<":", " ">> ELSE <<>>)
                \o Stringify(kid.v, indent)
  IN IF i = Len(value.kids) THEN item
     ELSE item \o <<",", "\n">> \o StringifyKids(value, indent, i + 1)

JSONstringify(value) == Stringify(value, 0)

ViewChars == {" ", "0", "\""}
SampleTexts ==
  { <<"n", "u", "l", "l">>, <<"f", "a", "l", "s", "e">>,
    <<"{", "\"", "A", "\"", ":", "0", "}">>,
    <<"[", "\"", "A", " ", "\\", "n", "\"", "]">> }
ViewTexts == TextsUpTo(ViewChars, MaxTextLen) \cup SampleTexts

\* the dependency parsed of the selection effect changed (Object.is): a
\* parse yields a new object or array each time, scalars compare by value
ParsedChanged(old, new) == isObject(new) \/ isArray(new) \/ new # old

\* the effect that resets the selection (deps activeTab, parsed), run with
\* the values of the render it follows
SelectionEffect(tab, value) ==
  IF tab = "viewer" /\ Truthy(value)
  THEN selectedPath' = Sel(JSON) /\ selectedValue' = value
  ELSE UNCHANGED <<selectedPath, selectedValue>>

treeRest == <<treeValue, collapsed, search, viewerMatches, viewerMatchIndex>>

ViewInit ==
  /\ inputData = <<>>
  /\ deferredInputData = <<>>
  /\ activeTab = "text"
  /\ TreeIdle
  /\ LintIdle
  /\ MatchIdle
  /\ CompIdle
  /\ FindIdle

\* onChange of the editor (mounted in the text tab): setInputData(val)
SetInputData(text) ==
  /\ activeTab = "text"
  /\ text # inputData
  /\ inputData' = text
  /\ event' = NoEvent("other")
  /\ UNCHANGED <<deferredInputData, activeTab, selectedPath, selectedValue, treeRest,
                 lintVars, matchVars, compVars, findVars>>

\* the React keys of the JsonNodes from the root down to a node: key={key}
\* below an object, key={index} below an array
RECURSIVE KeyPath(_, _)
KeyPath(value, node) ==
  IF node = <<>> THEN <<>>
  ELSE LET i == Head(node)
       IN <<IF isObject(value) THEN value.kids[i].k ELSE ToStr(i - 1)>>
            \o KeyPath(value.kids[i].v, Tail(node))

\* the open state after JsonTree is rendered again with another value: a
\* JsonNode that stays mounted under the same keys keeps its state
Reconcile(closed, old, new) ==
  {n \in Nodes(new) : \E c \in closed : KeyPath(old, c) = KeyPath(new, n)}

\* the deferred render: deferredInputData catches up with inputData
DeferredRender ==
  /\ deferredInputData # inputData
  /\ deferredInputData' = inputData
  /\ treeValue' = ParsedOf(inputData)
  /\ collapsed' = IF activeTab = "viewer" /\ Truthy(parsed) /\ Truthy(ParsedOf(inputData))
                  THEN Reconcile(collapsed, parsed, ParsedOf(inputData))
                  ELSE {}
  /\ IF ParsedChanged(parsed, ParsedOf(inputData))
     THEN SelectionEffect(activeTab, ParsedOf(inputData))
     ELSE UNCHANGED <<selectedPath, selectedValue>>
  /\ event' = NoEvent("other")
  /\ UNCHANGED <<inputData, activeTab, search, viewerMatches, viewerMatchIndex,
                 lintVars, matchVars, compVars, findVars>>

\* onClick of a tab: setActiveTab; the tree is mounted in the viewer tab
\* only
SetActiveTab(tab) ==
  /\ tab # activeTab
  /\ activeTab' = tab
  /\ collapsed' = {}
  /\ SelectionEffect(tab, parsed)
  /\ event' = NoEvent("other")
  /\ UNCHANGED <<inputData, deferredInputData, treeValue, search, viewerMatches,
                 viewerMatchIndex, lintVars, matchVars, compVars, findVars>>

\* formatJson that drops the selection when the text cannot be formatted
formatJsonResetOnError ==
  /\ IF ~IsBlank(inputData) /\ JSONparse(inputData).ok
     THEN LET jsonData == JSONparse(inputData).v
          IN /\ inputData' = JSONstringify(jsonData)
             /\ selectedPath' = Sel(JSON)
             /\ selectedValue' = jsonData
     ELSE /\ selectedPath' = NoSel
          /\ selectedValue' = JNull
          /\ UNCHANGED inputData
  /\ event' = NoEvent("format")
  /\ UNCHANGED <<deferredInputData, activeTab, treeRest, lintVars, matchVars, compVars, findVars>>

\* formatJson (toolbar button Format)
formatJson ==
  /\ IF ~IsBlank(inputData) /\ JSONparse(inputData).ok
     THEN LET jsonData == JSONparse(inputData).v
          IN /\ inputData' = JSONstringify(jsonData)
             /\ selectedPath' = Sel(JSON)
             /\ selectedValue' = jsonData
     ELSE UNCHANGED <<inputData, selectedPath, selectedValue>>
  /\ event' = NoEvent("format")
  /\ UNCHANGED <<deferredInputData, activeTab, treeRest, lintVars, matchVars, compVars, findVars>>

\* inputData.replace(/\s/g, "")
RemoveSpace(text) == SelectSeq(text, LAMBDA c : c \notin WhiteSpace)

\* removeWhitespace (toolbar button Remove white space)
removeWhitespace ==
  /\ IF ~IsBlank(inputData)
     THEN inputData' = RemoveSpace(inputData)
     ELSE UNCHANGED inputData
  /\ event' = NoEvent("minify")
  /\ UNCHANGED <<deferredInputData, activeTab, selectedPath, selectedValue, treeRest,
                 lintVars, matchVars, compVars, findVars>>

ViewNext ==
  \/ \E text \in ViewTexts : SetInputData(text)
  \/ DeferredRender
  \/ \E tab \in {"viewer", "text"} : SetActiveTab(tab)
  \/ formatJson
  \/ removeWhitespace

SpecView == ViewInit /\ [][ViewNext]_vars

\* C6: the viewer shows 'No data loaded' exactly when the text is blank;
\* every non-blank text that parses (null, 0, false and "" included) shows
\* the tree, every non-blank text that does not parse shows the error.
C6_NothingLoadedIffBlank ==
  (activeTab = "viewer" /\ deferredInputData = inputData) =>
    /\ ViewerPane = "No data loaded" <=> IsBlank(inputData)
    /\ (~IsBlank(inputData) /\ JSONparse(inputData).ok) => ViewerPane = "tree"
    /\ (~IsBlank(inputData) /\ ~JSONparse(inputData).ok) => ViewerPane = "error"

\* C7: for a non-blank text that is valid JSON jsonLinter returns no
\* diagnostic, error is null and, once the deferred text has caught up,
\* parsed is the value JSON.parse gives for the text.
C7_ValidTextParsed ==
  (~IsBlank(inputData) /\ JSONparse(inputData).ok) =>
    /\ \A msg \in Messages : jsonLinter(inputData, msg) = LintReturn(<<>>)
    /\ error = "null"
    /\ deferredInputData = inputData => parsed = JSONparse(inputData).v

\* a valid text was typed over another valid text and the deferred render
\* has caught up, for a falsy value and for an object
C7_Witness ==
  /\ deferredInputData = inputData
  /\ ~IsBlank(inputData)
  /\ JSONparse(inputData).ok
  /\ parsed = JNum(<<"0">>)
  /\ selectedValue.t = "obj"

\* C12: once an edit has produced a text in which the selected node no
\* longer exists (a text that does not parse included) the selection is
\* cleared: with the deferred text caught up, selectedPath and selectedValue
\* are either both null or the path and the value of a node of the document
\* the current text parses to.
C12_StaleSelectionCleared ==
  deferredInputData = inputData =>
    \/ ~selectedPath.set /\ selectedValue = JNull
    \/ /\ ~IsBlank(inputData)
       /\ JSONparse(inputData).ok
       /\ selectedPath.set
       /\ LET doc == JSONparse(inputData).v
          IN \E n \in Nodes(doc) :
               /\ NodePath(doc, JSON, n) = selectedPath.path
               /\ NodeAt(doc, n) = selectedValue

(***************************************************************************)
(* The completion source of the editor.  A result is a CompletionResult    *)
(* [from, options] or null; an option is [label, apply, boost], apply being *)
(* the label and boost 0 where the source gives none.                      *)
(***************************************************************************)
Letters ==
  {"a", "b", "c", "d", "e", "f", "g", "h", "i", "j", "k", "l", "m", "n", "o", "p",
   "q", "r", "s", "t", "u", "v", "w", "x", "y", "z",
   "A", "B", "C", "D", "E", "F", "G", "H", "I", "J", "K", "L", "M", "N", "O", "P",
   "Q", "R", "S", "T", "U", "V", "W", "X", "Y", "Z"}

\* the characters of the class \w
WordChars == Letters \cup {DigitChars[d] : d \in 1..10} \cup {"_"}

\* how many characters at the end of t are of the class
TrailingCount(t, class) ==
  CHOOSE k \in 0..Len(t) :
    /\ \A j \in (Len(t) - k + 1)..Len(t) : t[j] \in class
    /\ k = Len(t) \/ t[Len(t) - k] \notin class

\* /:\s*\w*$/.test(t), and /:\s*\w+$/.test(t) with minWord = 1
EndsColonWord(t, minWord) ==
  LET w == TrailingCount(t, WordChars)
      rest == SubSeq(t, 1, Len(t) - w)
      c == Len(rest) - TrailingCount(rest, WhiteSpace)
  IN w >= minWord /\ c >= 1 /\ rest[c] = ":"

\* /[...]\s*$/.test(t) for a class of characters
EndsWithThenSpace(t, class) ==
  LET c == Len(t) - TrailingCount(t, WhiteSpace)
  IN c >= 1 /\ t[c] \in class

\* state.doc.lineAt(pos).from
LineFrom(doc, pos) ==
  LET breaks == {i \in 1..pos : doc[i] = "\n"}
  IN IF breaks = {} THEN 0 ELSE CHOOSE i \in breaks : \A j \in breaks : j <= i

\* line.text.slice(0, pos - line.from)
LineBefore(doc, pos) == SubSeq(doc, LineFrom(doc, pos) + 1, pos)

\* context.matchBefore(/\w*/).from
WordFrom(doc, pos) == pos - TrailingCount(LineBefore(doc, pos), WordChars)

\* inString of isInsideString after the characters at offsets 0..n-1
RECURSIVE InStringAfter(_, _)
InStringAfter(doc, n) ==
  IF n = 0 THEN FALSE
  ELSE LET before == InStringAfter(doc, n - 1)
       IN IF doc[n] = "\"" /\ (n - 1 = 0 \/ doc[n - 1] # "\\") THEN ~before ELSE before

isInsideString(doc, pos) == InStringAfter(doc, Min(pos, Len(doc)))

\* a match of /"([^"\\]*)"\s*:/ that starts at index i (1-based)
KeyMatchAt(doc, i) ==
  LET stops == {j \in (i + 1)..Len(doc) : doc[j] \in {"\"", "\\"}}
      j == IF stops = {} THEN 0 ELSE CHOOSE x \in stops : \A y \in stops : x <= y
      ends == {k \in (j + 1)..Len(doc) : doc[k] \notin WhiteSpace}
      k == IF ends = {} THEN 0 ELSE CHOOSE x \in ends : \A y \in ends : x <= y
  IN IF doc[i] = "\"" /\ j > 0 /\ doc[j] = "\"" /\ k > 0 /\ doc[k] = ":"
     THEN [ok |-> TRUE, key |-> SubSeq(doc, i + 1, j - 1), end |-> k]
     ELSE [ok |-> FALSE, key |-> <<>>, end |-> i]

\* the loop of extractExistingKeys with regex.lastIndex = i - 1
RECURSIVE ScanKeys(_, _, _)
ScanKeys(doc, i, keys) ==
  IF i > Len(doc) THEN keys
  ELSE LET m == KeyMatchAt(doc, i)
       IN IF m.ok
          THEN ScanKeys(doc, m.end + 1,
                        IF \E n \in 1..Len(keys) : keys[n] = m.key THEN keys
                        ELSE Append(keys, m.key))
          ELSE ScanKeys(doc, i + 1, keys)

extractExistingKeys(doc) == ScanKeys(doc, 1, <<>>)

Option(label, apply, boost) == [label |-> label, apply |-> apply, boost |-> boost]
Plain(label) == Option(label, label, 0)

\* the options after a colon
ColonOptions ==
  << Plain(<<"t", "r", "u", "e">>), Plain(<<"f", "a", "l", "s", "e">>),
     Plain(<<"n", "u", "l", "l">>), Plain(<<"\"", "\"">>), Plain(<<"0">>),
     Plain(<<"{", "}">>), Plain(<<"[", "]">>) >>

\* the options after an opening bracket
BracketOptions ==
  << Plain(<<"\"", "\"">>), Plain(<<"t", "r", "u", "e">>),
     Plain(<<"f", "a", "l", "s", "e">>), Plain(<<"n", "u", "l", "l">>),
     Plain(<<"{", "}">>), Plain(<<"[", "]">>) >>

\* the options of the key branch
KeyOptions(keys) ==
  [i \in 1..Len(keys) |->
     Option(<<"\"">> \o keys[i] \o <<"\"">>,
            <<"\"">> \o keys[i] \o <<"\"", ":", " ">>,
            Len(keys) - (i - 1))]

\* jsonCompletionSource past the trigger gate
CompletionBody(doc, pos) ==
  LET lineBefore == LineBefore(doc, pos)
  IN IF isInsideString(doc, pos) THEN NullResult
     ELSE IF EndsColonWord(lineBefore, 0)
     THEN [isNull |-> FALSE, from |-> WordFrom(doc, pos), options |-> ColonOptions]
     ELSE IF EndsWithThenSpace(lineBefore, {"{", ","}) \/ IsBlank(lineBefore)
     THEN LET existingKeys == extractExistingKeys(doc)
          IN IF Len(existingKeys) = 0 THEN NullResult
             ELSE [isNull |-> FALSE, from |-> pos, options |-> KeyOptions(existingKeys)]
     ELSE IF EndsWithThenSpace(lineBefore, {"["})
     THEN [isNull |-> FALSE, from |-> pos, options |-> BracketOptions]
     ELSE NullResult

TriggerChars == {":", "{", ",", "["}

\* sliceString(Math.max(0, pos - 1), pos)
CharBefore(doc, pos) == SubSeq(doc, Max(0, pos - 1) + 1, pos)

\* the completion source without its trigger gate
jsonCompletionSourceNoGate(doc, pos, explicit) == CompletionBody(doc, pos)

jsonCompletionSource(doc, pos, explicit) ==
  IF /\ ~explicit
     /\ CharBefore(doc, pos) \notin {<<c>> : c \in TriggerChars}
     /\ ~EndsColonWord(LineBefore(doc, pos), 1)
  THEN NullResult
  ELSE CompletionBody(doc, pos)

(***************************************************************************)
(* Specification of the completion source: any document up to MaxCompLen   *)
(* over the characters it tells apart and some longer ones, any cursor     *)
(* position, invoked explicitly or by typing.                              *)
(***************************************************************************)
CompChars == {"\"", "\\", ":", "{", ",", "[", "\n", " ", "a"}
CompSamples ==
  { <<"{", "\"", "a", "\"", ":", " ", "1", "}", "\n">>,
    <<"\\", "\\", "\"", "[">>,
    <<"\"", "\\", "\\", "\"", "\"", ":">>,
    <<"\"", "\\", "\\", "\"", ":">>,
    <<"{", "\"", "a", "\\", "\"", "a", "\"", ":", "1", "}">>,
    <<"[", "\"", "a", "\"", ",", "\"", ":", "a", "\"", "]">>,
    <<"{", "\"", "a", "\"", ":", "1", ",", "\"", "b", "\"", ":", "1", "}">>,
    <<"\"", "a", "\"", ":", "\"", "\"", ":", "\"", "a", "\"", ":", "\n">> }
CompTexts == TextsUpTo(CompChars, MaxCompLen) \cup CompSamples

CompInit ==
  /\ compDoc \in CompTexts
  /\ compPos \in 0..Len(compDoc)
  /\ compExplicit \in BOOLEAN
  /\ compResult = NullResult
  /\ compPc = "idle"
  /\ LintIdle
  /\ MatchIdle
  /\ TreeIdle
  /\ ViewIdle
  /\ FindIdle

RunCompletion ==
  /\ compPc = "idle"
  /\ compResult' = jsonCompletionSource(compDoc, compPos, compExplicit)
  /\ compPc' = "done"
  /\ UNCHANGED <<compDoc, compPos, compExplicit, lintVars, matchVars, treeVars, viewVars, findVars>>

CompNext == RunCompletion

SpecComplete == CompInit /\ [][CompNext]_vars

\* the quote at index i is not escaped: an even number of backslashes
\* stands right before it
UnescapedQuote(doc, i) ==
  doc[i] = "\"" /\ TrailingCount(SubSeq(doc, 1, i - 1), {"\\"}) % 2 = 0

\* the cursor lies inside a string literal: a quote opened before it is not
\* closed before it
InsideLiteral(doc, pos) ==
  Cardinality({i \in 1..pos : UnescapedQuote(doc, i)}) % 2 = 1

\* C13: for a cursor inside a string literal jsonCompletionSource returns
\* null, explicitly invoked or not, whatever character precedes the cursor.
C13_NoSuggestionInsideString ==
  (compPc = "done" /\ InsideLiteral(compDoc, compPos)) => compResult.isNull

\* the cursor stands right after a newline on a line that is blank
AtStartOfBlankLine(doc, pos) ==
  /\ pos >= 1
  /\ doc[pos] = "\n"
  /\ \A i \in (pos + 1)..Len(doc) :
       (\A j \in (pos + 1)..i : doc[j] # "\n") => doc[i] \in WhiteSpace

\* C14: not explicitly invoked, with the cursor at the start of a blank line
\* after a newline and a key in the document, the result has an option
\* inserting "key": for each key of the document.
C14_KeysOfferedOnBlankLine ==
  (/\ compPc = "done"
   /\ ~compExplicit
   /\ AtStartOfBlankLine(compDoc, compPos)
   /\ ~InsideLiteral(compDoc, compPos)
   /\ Len(extractExistingKeys(compDoc)) > 0) =>
    /\ ~compResult.isNull
    /\ LET keys == extractExistingKeys(compDoc)
       IN \A n \in 1..Len(keys) :
            \E o \in 1..Len(compResult.options) :
              compResult.options[o].apply = <<"\"">> \o keys[n] \o <<"\"", ":", " ">>

\* the value literals: true, false, null, the empty string, 0, the empty
\* object and the empty array
ValueLiterals ==
  { <<"t", "r", "u", "e">>, <<"f", "a", "l", "s", "e">>, <<"n", "u", "l", "l">>,
    <<"\"", "\"">>, <<"0">>, <<"{", "}">>, <<"[", "]">> }

Labels(result) == {result.options[o].label : o \in 1..Len(result.options)}

\* C15: the literals offered after '[' are the ones offered after ':', the
\* seven value literals; after ':' the replacement starts at the beginning
\* of the partly typed word, or at the cursor if there is none, after '['
\* at the cursor.
C15_SameLiteralsAfterBracketAndColon ==
  (compPc = "done" /\ ~compResult.isNull) =>
    LET lineBefore == LineBefore(compDoc, compPos)
        word == TrailingCount(lineBefore, WordChars)
    IN /\ EndsWithThenSpace(lineBefore, {"["}) =>
            /\ Labels(compResult) = ValueLiterals
            /\ compResult.from = compPos
       /\ EndsWithThenSpace(SubSeq(lineBefore, 1, Len(lineBefore) - word), {":"}) =>
            /\ Labels(compResult) = ValueLiterals
            /\ compResult.from = compPos - word

\* the text ends with a colon, optional white space and one word character
\* or more
ColonThenWord(t) ==
  \E i \in 1..Len(t) : \E j \in (i + 1)..Len(t) :
    /\ t[i] = ":"
    /\ \A m \in (i + 1)..(j - 1) : t[m] \in WhiteSpace
    /\ \A m \in j..Len(t) : t[m] \in WordChars

\* C16: not explicitly invoked, the result is non-null only if the
\* character before the cursor is one of : { , [ or the line before the
\* cursor ends with a colon, optional white space and a word; explicitly
\* invoked, the result is what the source returns past the gate.
C16_TriggerGate ==
  compPc = "done" =>
    /\ (~compExplicit /\ ~compResult.isNull) =>
          \/ compPos >= 1 /\ compDoc[compPos] \in {":", "{", ",", "["}
          \/ ColonThenWord(LineBefore(compDoc, compPos))
    /\ compExplicit => compResult = CompletionBody(compDoc, compPos)

\* typing a word after a colon got the value literals, the character before
\* the cursor being none of the four
C16_Witness ==
  /\ compPc = "done"
  /\ ~compExplicit
  /\ ~compResult.isNull
  /\ compPos >= 1
  /\ compDoc[compPos] = "a"

\* C17: in the key branch the options are the distinct keys of the document,
\* each once, with strictly decreasing boost, each inserting "key": ; when
\* the document has no key the result is null.
C17_KeyBranchListsTheKeys ==
  LET lineBefore == LineBefore(compDoc, compPos)
      parse == JSONparse(compDoc)
  IN (/\ compPc = "done"
      /\ compExplicit
      /\ ~InsideLiteral(compDoc, compPos)
      /\ EndsWithThenSpace(lineBefore, {"{", ","}) \/ IsBlank(lineBefore)) =>
       /\ \A o \in 1..Len(compResult.options) :
            /\ compResult.options[o].apply = compResult.options[o].label \o <<":", " ">>
            /\ \A q \in (o + 1)..Len(compResult.options) :
                 /\ compResult.options[o].label # compResult.options[q].label
                 /\ compResult.options[o].boost > compResult.options[q].boost
       /\ (~IsBlank(compDoc) /\ parse.ok) =>
            LET keys == KeysOf(parse.v)
            IN /\ keys = {} => compResult.isNull
               /\ keys # {} => ~compResult.isNull
               /\ Labels(compResult) = {<<"\"">> \o k \o <<"\"">> : k \in keys}

\* what Format makes of a text
Formatted(text) ==
  IF ~IsBlank(text) /\ JSONparse(text).ok THEN JSONstringify(JSONparse(text).v) ELSE text

\* C18: Format applied to a text that parses gives a text that Format
\* leaves as it is; applied to a blank text or a text that does not parse
\* it changes neither the text nor the selection.
C18_FormatIdempotent ==
  [][event'.kind = "format" =>
       /\ inputData' = Formatted(inputData)
       /\ Formatted(inputData') = inputData'
       /\ (event.kind = "format" => inputData' = inputData)
       /\ (IsBlank(inputData) \/ ~JSONparse(inputData).ok) =>
            /\ inputData' = inputData
            /\ selectedPath' = selectedPath
            /\ selectedValue' = selectedValue
    ]_vars

\* Format has laid out an array with a string in it over several lines, and
\* Format did nothing to a text that does not parse while a node was selected
C18_Witness ==
  /\ event.kind = "format"
  /\ \/ /\ JSONparse(inputData).ok
        /\ isArray(JSONparse(inputData).v)
        /\ \E i \in 1..Len(inputData) : inputData[i] = "\n"
     \/ /\ ~IsBlank(inputData)
        /\ ~JSONparse(inputData).ok
        /\ selectedPath.set

\* C19: Remove white space turns a text that is valid JSON into a text that
\* is valid JSON and parses to the same value, strings with white space in
\* them included.
C19_MinifyKeepsValue ==
  [][(event'.kind = "minify" /\ ~IsBlank(inputData) /\ JSONparse(inputData).ok) =>
       /\ JSONparse(inputData').ok
       /\ JSONparse(inputData').v = JSONparse(inputData).v
    ]_vars

\* the text pipeline under the scheduling of React: a deferred render that
\* is pending is carried out
\* what a deferred render does to the deferred text
DeferredCatchUp == deferredInputData # inputData /\ deferredInputData' = inputData

SpecViewFair == SpecView /\ WF_deferredInputData(DeferredCatchUp)

\* C20: whenever the deferred text lags behind the text it catches up, and
\* while the text does not change it stays caught up: parsed is then the
\* parse of the latest inputData, null when that is blank or does not parse.
C20_LatestInputReflected ==
  /\ (deferredInputData # inputData) ~> (deferredInputData = inputData)
  /\ [](deferredInputData = inputData =>
          parsed = IF ~IsBlank(inputData) /\ JSONparse(inputData).ok
                   THEN JSONparse(inputData).v ELSE JNull)
  /\ [][(deferredInputData = inputData /\ inputData' = inputData) =>
          deferredInputData' = inputData']_vars

\* the deferred render has caught up with an edited text that parses to an
\* array
C20_Witness ==
  /\ deferredInputData = inputData
  /\ event.kind = "other"
  /\ isArray(parsed)

\* the smallest offset from i on at which a closing brace or bracket outside
\* every string makes the depth negative, max(0, length - 1) if there is
\* none; inside a string a backslash escapes the character after it
RECURSIVE FirstNegativeDepth(_, _, _, _, _)
FirstNegativeDepth(doc, i, depth, inString, escaped) ==
  IF i >= Len(doc) THEN Max(0, Len(doc) - 1)
  ELSE LET ch == doc[i + 1]
       IN IF inString
          THEN IF escaped THEN FirstNegativeDepth(doc, i + 1, depth, TRUE, FALSE)
               ELSE IF ch = "\\" THEN FirstNegativeDepth(doc, i + 1, depth, TRUE, TRUE)
               ELSE FirstNegativeDepth(doc, i + 1, depth, ch # "\"", FALSE)
          ELSE IF ch = "\"" THEN FirstNegativeDepth(doc, i + 1, depth, TRUE, FALSE)
          ELSE IF ch \in {"{", "["} THEN FirstNegativeDepth(doc, i + 1, depth + 1, FALSE, FALSE)
          ELSE IF ch \in {"}", "]"}
               THEN IF depth = 0 THEN i
                    ELSE FirstNegativeDepth(doc, i + 1, depth - 1, FALSE, FALSE)
          ELSE FirstNegativeDepth(doc, i + 1, depth, FALSE, FALSE)

\* C22: for a parser message without offset and without line and column the
\* diagnostic starts at the first closing brace or bracket outside every
\* string that makes the depth negative, at max(0, length - 1) if there is
\* none, and ends at min(from + 10, length); the text { gets from = 0.
C22_BracketScanPosition ==
  (lintPc = "done" /\ Malformed(lintDoc) /\ lintMsg = NoMsg) =>
    /\ ~lintOut.raised
    /\ Len(lintOut.diags) = 1
    /\ lintOut.diags[1].from = FirstNegativeDepth(lintDoc, 0, 0, FALSE, FALSE)
    /\ lintOut.diags[1].to = Min(lintOut.diags[1].from + 10, Len(lintDoc))
    /\ lintDoc = <<"{">> => lintOut.diags[1].from = 0

\* C23: the range of the diagnostic of a malformed document is never empty,
\* from < to, whichever rule of the fallback chain placed it, a 'line L
\* column C' message with C = 0 included.
C23_RangeNeverEmpty ==
  (lintPc = "done" /\ Malformed(lintDoc) /\ ~lintOut.raised) =>
    \A d \in 1..Len(lintOut.diags) : lintOut.diags[d].from < lintOut.diags[d].to

\* C24: where every string literal opened before the cursor is closed
\* before it (a quote being escaped only after an odd number of backslashes)
\* isInsideString is false, and a cursor right after ':' is offered the
\* value literals.
C24_GateSuppressesOnlyInsideStrings ==
  (compPc = "done" /\ ~InsideLiteral(compDoc, compPos)) =>
    /\ ~isInsideString(compDoc, compPos)
    /\ (compPos >= 1 /\ compDoc[compPos] = ":") =>
          /\ ~compResult.isNull
          /\ Labels(compResult) = ValueLiterals

\* C25: a click on the row of one node leaves the expand state of every
\* other node as it was, so a node collapsed and expanded again finds each
\* of its descendants in the expand state it had before.
C25_ClickLeavesOtherNodesAlone ==
  [][event'.kind = "click" =>
       \A n \in Nodes(treeValue) \ {event'.node} :
         (n \in collapsed') <=> (n \in collapsed)]_vars

\* C26: a change of the search string, typed in the search box or sent with
\* GO, changes the expand state of no node.
C26_SearchKeepsExpandState ==
  [][(search' # search \/ event'.kind = "go") => collapsed' = collapsed]_vars

\* C27: with a path selected in a parsed document, selectedValue is the
\* value of the node the path addresses, after row clicks, GO, Next and
\* Previous alike, a null value included.
C27_SelectedValueIsTheSelectedNode ==
  (activeTab = "viewer" /\ Truthy(treeValue) /\ selectedPath.set) =>
    \E n \in Nodes(treeValue) :
      /\ NodePath(treeValue, JSON, n) = selectedPath.path
      /\ NodeAt(treeValue, n) = selectedValue

\* the path addresses a node of the document shown whose label or scalar
\* value contains the query
CurrentMatch(path, query) ==
  \E n \in Nodes(treeValue) :
    /\ NodePath(treeValue, JSON, n) = path
    /\ NodeMatches(NodeAt(treeValue, n), NodeLabel(treeValue, JSON, n), query)

\* C29: Next and Previous select only paths of nodes of the document shown
\* that match the query now in the search box, also after the query was
\* edited or GO was pressed with a blank query.
C29_NavigationFollowsCurrentQuery ==
  [][event'.kind \in {"next", "previous"} =>
       /\ ~IsBlank(search)
       /\ CurrentMatch(selectedPath'.path, Trim(search))]_vars

\* C30: parsed and error are computed from the same text: when parsed is
\* not null it is the parse of the current inputData and error is null, so
\* no tree of an older text is on screen while the current text has a parse
\* error.
C30_ParsedAndErrorOfSameText ==
  parsed # JNull =>
    /\ ~IsBlank(inputData)
    /\ JSONparse(inputData).ok
    /\ JSONparse(inputData).v = parsed
    /\ error = "null"

(***************************************************************************)
(* Specification of the whole page: the text is edited in the text tab,    *)
(* formatted, minified, cleared or replaced by a sample, the deferred      *)
(* render brings parsed up to date, and in the viewer tab the user clicks  *)
(* rows and searches; GO, Next and Previous work in both tabs.  treeValue  *)
(* is parsed all along.  The two samples of loadSample are abridged to one *)
(* entry each; Remove white space is left to the text pipeline above.      *)
(***************************************************************************)
AppTexts ==
  { <<"\"">>, <<"[", "[", "]", "]">> }
AppSearches == {<<>>, <<"e">>}

Samples(type) ==
  IF type = "simple"
  THEN JObj(<<[k |-> <<"n", "a", "m", "e">>, v |-> JStr(<<"S", "a", "m", "p", "l", "e">>)]>>)
  ELSE JObj(<<[k |-> <<"a", "d", "d", "r", "e", "s", "s">>,
               v |-> JObj(<<[k |-> <<"c", "i", "t", "y">>,
                             v |-> JStr(<<"N", "e", "w", " ", "Y", "o", "r", "k">>)]>>)]>>)

AppInit ==
  /\ inputData = <<>>
  /\ deferredInputData = <<>>
  /\ activeTab = "text"
  /\ TreeIdle
  /\ FindIdle
  /\ LintIdle
  /\ MatchIdle
  /\ CompIdle

\* clearAll that leaves the two match indices as they are
clearAllKeepsIndex ==
  /\ inputData' = <<>>
  /\ selectedValue' = JNull
  /\ selectedPath' = NoSel
  /\ search' = <<>>
  /\ searchMatches' = <<>>
  /\ viewerMatches' = <<>>
  /\ collapsed' = IF TreeKey(<<>>) # TreeKey(search) THEN {} ELSE collapsed
  /\ event' = NoEvent("clear")
  /\ UNCHANGED <<deferredInputData, activeTab, treeValue, currentMatchIndex, viewerMatchIndex,
                 lintVars, matchVars, compVars>>

\* clearAll (toolbar button Clear); an emptied search box gives JsonTree
\* the key "default"
clearAll ==
  /\ inputData' = <<>>
  /\ selectedValue' = JNull
  /\ selectedPath' = NoSel
  /\ search' = <<>>
  /\ searchMatches' = <<>>
  /\ currentMatchIndex' = -1
  /\ viewerMatches' = <<>>
  /\ viewerMatchIndex' = -1
  /\ collapsed' = IF TreeKey(<<>>) # TreeKey(search) THEN {} ELSE collapsed
  /\ event' = NoEvent("clear")
  /\ UNCHANGED <<deferredInputData, activeTab, treeValue, lintVars, matchVars, compVars>>

\* loadSample: the render that follows still has the parsed of the text
\* before, and runs the selection effect if activeTab changed
loadSample(type) ==
  /\ LET data == Samples(type)
     IN /\ inputData' = JSONstringify(data)
        /\ selectedPath' = Sel(JSON)
        /\ selectedValue' = IF activeTab # "viewer" /\ Truthy(parsed) THEN parsed ELSE data
  /\ activeTab' = "viewer"
  /\ event' = NoEvent("load")
  /\ UNCHANGED <<deferredInputData, treeRest, lintVars, matchVars, compVars, findVars>>

AppNext ==
  \/ \E text \in AppTexts : SetInputData(text)
  \/ DeferredRender
  \/ \E tab \in {"viewer", "text"} : SetActiveTab(tab)
  \/ formatJson
  \/ clearAll
  \/ \E type \in {"simple", "complex"} : loadSample(type)
  \/ LET rows == TreeRows IN \E i \in 1..Len(rows) : ClickRow(rows[i])
  \/ \E s \in AppSearches : SetSearch(s)
  \/ handleSearch
  \/ handleNext
  \/ handlePrevious

SpecApp == AppInit /\ [][AppNext]_vars

\* C21: when the text is replaced by another text that parses, every object
\* and array node of the tree rendered for it is Expanded, whatever was
\* collapsed before, also when the new document has the same keys at the
\* same positions.
C21_ReplacedDocumentIsExpanded ==
  [][(deferredInputData' # deferredInputData /\ TreeRows' # <<>>) =>
       \A n \in Nodes(treeValue') :
         (isObject(NodeAt(treeValue', n)) \/ isArray(NodeAt(treeValue', n))) =>
           n \notin collapsed']_vars

\* the list is empty exactly when the index is -1, and the index lies in
\* the list otherwise
IndexInList(list, index) ==
  /\ (list = <<>>) <=> (index = -1)
  /\ list # <<>> => (0 <= index /\ index < Len(list))

\* C28: for the viewer search and for the text search the match list is
\* empty exactly when its index is -1, and otherwise 0 <= index < length,
\* through GO, Next, Previous, Clear, tab switches and text edits.
C28_MatchIndexInRange ==
  /\ IndexInList(viewerMatches, viewerMatchIndex)
  /\ IndexInList(searchMatches, currentMatchIndex)

\* both searches have two matches or more and were moved off the first one
C28_Witness ==
  /\ Len(viewerMatches) >= 2 /\ viewerMatchIndex = Len(viewerMatches) - 1
  /\ Len(searchMatches) >= 2 /\ currentMatchIndex = Len(searchMatches) - 1
  /\ event.kind = "previous"

====
